---- MODULE Spec2Model ----
(***************************************************************************)
(* A model of the Arcade Python notify plugin                             *)
(* (examples/python-plugin/plugin.py): the credential gate, the handshake *)
(* emitter, the single-connection dispatch loop of SimpleRPCServer, the   *)
(* method resolver, the result/error translator and the NotifyPlugin      *)
(* capability object.                                                      *)
(*                                                                         *)
(* Representation of Python strings: a str is a sequence of atoms; an     *)
(* atom is the separator ".", one CJK character written by its code point *)
(* ("U+5931"), or a maximal run of other characters ("Send").  With this   *)
(* representation str.split('.') and str.startswith(<CJK prefix>) are     *)
(* computed, not assumed.                                                  *)
(***************************************************************************)
EXTENDS Integers, Sequences, FiniteSets, TLC

(***************************************************************************)
(* Bounds of the model.                                                    *)
(***************************************************************************)
\* The peer sends at most this many messages on the connection.
MaxRequests == 2
\* A test calls at most this many operations of the plugin.
MaxCalls == 3

(***************************************************************************)
(* Program constants.                                                      *)
(***************************************************************************)
\* recv(4096): the most bytes one read returns.
RecvBuf == 4096
\* The id a request without an 'id' member is answered with.
DefaultId == 0
\* sys.exit(1)
ExitFailure == 1

(***************************************************************************)
(* Python values and JSON wire values, tagged so that values of different *)
(* types can be compared.                                                  *)
(***************************************************************************)
PyNone == [t |-> "None", v |-> 0]
PyStr(s) == [t |-> "str", v |-> s]
PyInt(n) == [t |-> "int", v |-> n]
PyList(l) == [t |-> "list", v |-> l]
PyDict(d) == [t |-> "dict", v |-> d]

JNull == [t |-> "null", v |-> 0]
JString(s) == [t |-> "string", v |-> s]
JNumber(n) == [t |-> "number", v |-> n]
JArray(l) == [t |-> "array", v |-> l]
JObject(d) == [t |-> "object", v |-> d]

\* json.loads on a parsed JSON text: null -> None, string -> str,
\* number -> int, array -> list, object -> dict.
RECURSIVE FromJson(_)
FromJson(j) ==
    CASE j.t = "null" -> PyNone
      [] j.t = "string" -> PyStr(j.v)
      [] j.t = "number" -> PyInt(j.v)
      [] j.t = "array" -> PyList([i \in DOMAIN j.v |-> FromJson(j.v[i])])
      [] j.t = "object" -> PyDict([k \in DOMAIN j.v |-> FromJson(j.v[k])])

\* json.dumps: None -> null, str -> string, int -> number, list -> array,
\* dict -> object.
RECURSIVE ToJson(_)
ToJson(p) ==
    CASE p.t = "None" -> JNull
      [] p.t = "str" -> JString(p.v)
      [] p.t = "int" -> JNumber(p.v)
      [] p.t = "list" -> JArray([i \in DOMAIN p.v |-> ToJson(p.v[i])])
      [] p.t = "dict" -> JObject([k \in DOMAIN p.v |-> ToJson(p.v[k])])

\* Python truthiness of a value (if config_json: ...).
Truthy(p) ==
    CASE p.t = "None" -> FALSE
      [] p.t = "str" -> p.v # <<>>
      [] p.t = "int" -> p.v # 0
      [] p.t = "list" -> p.v # <<>>
      [] p.t = "dict" -> DOMAIN p.v # {}

\* str.startswith(prefix) on sequences of atoms.
StartsWith(s, prefix) ==
    /\ Len(s) >= Len(prefix)
    /\ SubSeq(s, 1, Len(prefix)) = prefix

\* method.split('.')[0]: the atoms before the first "." of the string.
FirstSegment(s) ==
    IF \E i \in DOMAIN s : s[i] = "."
    THEN LET first == CHOOSE i \in DOMAIN s :
                         s[i] = "." /\ \A j \in 1..(i - 1) : s[j] # "."
         IN  SubSeq(s, 1, first - 1)
    ELSE s

\* method.split('.')[-1]: the atoms after the last "." of the string.
RECURSIVE LastSegment(_)
LastSegment(s) ==
    IF \E i \in DOMAIN s : s[i] = "."
    THEN LastSegment(Tail(s))
    ELSE s

\* The attribute name a dot-free string denotes ("" for the empty string).
AttrName(seg) == IF seg = <<>> THEN "" ELSE seg[1]

(***************************************************************************)
(* JSON texts carried inside string arguments (config_json, message_json, *)
(* data_json, messages_json) and what json.loads makes of them.           *)
(***************************************************************************)
TextConfig == <<"{\"a\":1}">>
TextHello == <<"\"hello\"">>
TextFive == <<"5">>
TextBatch == <<"[\"m1\",\"m2\"]">>
TextInvalid == <<"{invalid json">>

\* json.loads(text): [ok |-> TRUE, val |-> value] or a JSONDecodeError.
JsonLoads(text) ==
    CASE text = TextConfig -> [ok |-> TRUE, val |-> PyDict([a |-> PyInt(1)])]
      [] text = TextHello -> [ok |-> TRUE, val |-> PyStr(<<"hello">>)]
      [] text = TextFive -> [ok |-> TRUE, val |-> PyInt(5)]
      [] text = TextBatch ->
            [ok |-> TRUE, val |-> PyList(<<PyStr(<<"m1">>), PyStr(<<"m2">>)>>)]
      [] OTHER -> [ok |-> FALSE, val |-> PyNone]

(***************************************************************************)
(* NotifyPlugin, the capability object.                                    *)
(***************************************************************************)
\* The failure markers of the result/error translator.
MarkerError == <<"U+9519", "U+8BEF">>
MarkerFailed == <<"U+5931", "U+8D25">>

\* The prefixes of the failure strings the operations return.
InitParseFailed == <<"U+914D", "U+7F6E", "U+89E3", "U+6790", "U+5931", "U+8D25", ": ">>
InitFailed == <<"U+521D", "U+59CB", "U+5316", "U+5931", "U+8D25", ": ">>
SendFailed == <<"U+53D1", "U+9001", "U+6D88", "U+606F", "U+5931", "U+8D25", ": ">>
SendTemplateFailed ==
    <<"U+53D1", "U+9001", "U+6A21", "U+677F", "U+6D88", "U+606F", "U+5931", "U+8D25", ": ">>
SendBatchFailed ==
    <<"U+6279", "U+91CF", "U+53D1", "U+9001", "U+6D88", "U+606F", "U+5931", "U+8D25", ": ">>

\* NotifyPlugin.__init__: the fields of a fresh plugin.
NewPlugin ==
    [name |-> <<"python-notify">>,
     version |-> <<"1", ".", "0", ".", "0">>,
     plugin_type |-> <<"notify">>,
     description |-> <<"Python ", "U+901A", "U+77E5", "U+63D2", "U+4EF6", "U+793A", "U+4F8B">>,
     config |-> PyDict(<<>>)]

\* The outcome of a call: a returned value or a raised exception.
Return(p, val) == [plugin |-> p, kind |-> "return", val |-> val]
Raise(p, exc) == [plugin |-> p, kind |-> "raise", val |-> PyStr(<<exc>>)]

\* The operations of the capability contract.
Operations ==
    {"Name", "Description", "Version", "Type", "Init", "Cleanup",
     "Send", "SendTemplate", "SendBatch"}
\* The data attributes __init__ sets on the instance.
DataAttrs == {"name", "version", "plugin_type", "description", "config"}
\* Other callable members of the instance: the _debug helper, the
\* constructor, and (as one representative of the members inherited from
\* object) __sizeof__.
OtherCallables == {"_debug", "__init__", "__sizeof__"}

\* hasattr(self.plugin, method_name)
HasAttr(name) == name \in Operations \cup DataAttrs \cup OtherCallables

\* The number of positional arguments each callable member takes.
Arity(name) ==
    CASE name \in {"Name", "Description", "Version", "Type", "Cleanup"} -> 0
      [] name \in {"Init", "_debug"} -> 1
      [] name \in {"Send", "SendBatch"} -> 2
      [] name = "SendTemplate" -> 3
      [] OTHER -> 0

\* Init that clears the configuration when the payload does not parse.
PluginInitClearsOnFailure(p, config_json) ==
    IF ~Truthy(config_json)
    THEN Return(p, PyNone)
    ELSE IF config_json.t = "str" /\ JsonLoads(config_json.v).ok
    THEN Return([p EXCEPT !.config = JsonLoads(config_json.v).val], PyNone)
    ELSE Return([p EXCEPT !.config = PyDict(<<>>)],
                PyStr(InitParseFailed \o <<"Expecting property name">>))

\* NotifyPlugin.Init(config_json)
PluginInit(p, config_json) ==
    IF ~Truthy(config_json)
    THEN Return(p, PyNone)
    ELSE IF config_json.t # "str"
    THEN \* json.loads raises TypeError, caught by "except Exception"
         Return(p, PyStr(InitFailed \o <<"the JSON object must be str, bytes or bytearray">>))
    ELSE LET r == JsonLoads(config_json.v) IN
         IF r.ok
         THEN Return([p EXCEPT !.config = r.val], PyNone)
         ELSE Return(p, PyStr(InitParseFailed \o <<"Expecting property name">>))

\* The common body of Send, SendTemplate and SendBatch: decode the payload
\* if there is one and return None, or the failure string of the operation.
ParsePayload(p, payload, failed, sized) ==
    IF ~Truthy(payload)
    THEN Return(p, PyNone)
    ELSE IF payload.t # "str"
    THEN Return(p, PyStr(failed \o <<"the JSON object must be str, bytes or bytearray">>))
    ELSE LET r == JsonLoads(payload.v) IN
         IF ~r.ok
         THEN Return(p, PyStr(failed \o <<"Expecting property name">>))
         ELSE IF sized /\ r.val.t \in {"int", "None"}
         THEN \* len(messages) raises TypeError
              Return(p, PyStr(failed \o <<"object has no len()">>))
         ELSE Return(p, PyNone)

\* NotifyPlugin.Send(message_json, opts_json)
Send(p, message_json, opts_json) == ParsePayload(p, message_json, SendFailed, FALSE)

\* NotifyPlugin.SendTemplate(template, data_json, opts_json)
SendTemplate(p, template, data_json, opts_json) ==
    ParsePayload(p, data_json, SendTemplateFailed, FALSE)

\* NotifyPlugin.SendBatch(messages_json, opts_json)
SendBatch(p, messages_json, opts_json) ==
    ParsePayload(p, messages_json, SendBatchFailed, TRUE)

\* The prefix of the failure string of Cleanup.
CleanupFailed == <<"U+6E05", "U+7406", "U+5931", "U+8D25", ": ">>

\* Cleanup that takes its except clause.
CleanupFails(p) == Return(p, PyStr(CleanupFailed \o <<"OSError">>))

\* NotifyPlugin.Cleanup()
Cleanup(p) == Return(p, PyNone)

\* func(*args) for a member of the plugin, args a sequence of values.
CallMember(p, name, args) ==
    IF name \in DataAttrs
    THEN Raise(p, "TypeError: object is not callable")
    ELSE IF Len(args) # Arity(name)
    THEN Raise(p, "TypeError: wrong number of positional arguments")
    ELSE CASE name = "Name" -> Return(p, PyStr(p.name))
           [] name = "Description" -> Return(p, PyStr(p.description))
           [] name = "Version" -> Return(p, PyStr(p.version))
           [] name = "Type" -> Return(p, PyStr(p.plugin_type))
           [] name = "Init" -> PluginInit(p, args[1])
           [] name = "Cleanup" -> Cleanup(p)
           [] name = "Send" -> Send(p, args[1], args[2])
           [] name = "SendTemplate" -> SendTemplate(p, args[1], args[2], args[3])
           [] name = "SendBatch" -> SendBatch(p, args[1], args[2])
           [] name = "_debug" -> Return(p, PyNone)
           [] name = "__init__" -> Return(NewPlugin, PyNone)
           [] name = "__sizeof__" -> Return(p, PyInt(48))

(***************************************************************************)
(* SimpleRPCServer._call_method: the method resolver and the result/error *)
(* translator.                                                             *)
(***************************************************************************)
\* "method <name> does not exist"
NotFound(name) ==
    <<"U+65B9", "U+6CD5", " ", name, " ", "U+4E0D", "U+5B58", "U+5728">>

\* The prefix of the error of a faulted call.
CallFailed == <<"U+8C03", "U+7528", "U+65B9", "U+6CD5", "U+5931", "U+8D25", ": ">>

\* traceback.format_exc()
Traceback == "Traceback (most recent call last)"

\* What _call_method returns, with the plugin as the call left it and a
\* record of the call made: the member invoked ("" when none was) and how
\* it ended ("none", "return" or "raise") with the value or the exception.
Answer(p, result, error, name, kind, val) ==
    [plugin |-> p, result |-> result, error |-> error,
     call |-> [name |-> name, kind |-> kind, val |-> val]]

\* Fault with the error left out of the answer.
FaultDropsError(p, exc, name, kind, val) ==
    Answer(p, PyNone, PyNone, name, kind, val)

\* The except clause of _call_method: the error is str(e), a newline and
\* the traceback.  The call record says how the member itself ended.
Fault(p, exc, name, kind, val) ==
    Answer(p, PyNone, PyStr(CallFailed \o exc \o <<"\n", Traceback>>),
           name, kind, val)

\* Translate with a returned string copied to both slots.
TranslateBothSlots(p, name, result) ==
    IF result = PyNone
    THEN Answer(p, PyNone, result, name, "return", result)
    ELSE Answer(p, result, result, name, "return", result)

\* Translate with None, which takes the branch of the failures, reported
\* as a failure.
TranslateNoneIsError(p, name, result) ==
    IF result = PyNone
    THEN Answer(p, PyNone, PyStr(<<"None">>), name, "return", result)
    ELSE IF result.t = "str" /\ ~StartsWith(result.v, MarkerError)
                             /\ ~StartsWith(result.v, MarkerFailed)
    THEN Answer(p, result, PyNone, name, "return", result)
    ELSE Answer(p, PyNone, result, name, "return", result)

\* The result/error translator: the condition of the if statement is
\*   result is None or (isinstance(result, str) and
\*       result.startswith(MarkerError) or result.startswith(MarkerFailed))
\* in which "and" binds tighter than "or", so that the second startswith
\* is evaluated for every result that is not None and does not begin with
\* MarkerError; a value without a startswith attribute raises there.
Translate(p, name, result) ==
    IF result = PyNone
    THEN Answer(p, PyNone, result, name, "return", result)
    ELSE IF result.t = "str" /\ StartsWith(result.v, MarkerError)
    THEN Answer(p, PyNone, result, name, "return", result)
    ELSE IF result.t # "str"
    THEN Fault(p, <<"AttributeError: object has no attribute 'startswith'">>,
               name, "return", result)
    ELSE IF StartsWith(result.v, MarkerFailed)
    THEN Answer(p, PyNone, result, name, "return", result)
    ELSE Answer(p, result, PyNone, name, "return", result)

\* SimpleRPCServer._call_method(method, params).  The params of the
\* model's requests are a list, a number or null.
_call_method(p, method, params) ==
    IF method.t # "str"
    THEN Fault(p, <<"AttributeError: object has no attribute 'split'">>,
               "", "none", PyNone)
    ELSE LET method_name == AttrName(LastSegment(method.v)) IN
         IF ~HasAttr(method_name)
         THEN Answer(p, PyNone, PyStr(NotFound(method_name)), "", "none", PyNone)
         ELSE IF params.t # "list"
         THEN Fault(p, <<"TypeError: argument after * must be an iterable">>,
                    method_name, "raise",
                    PyStr(<<"TypeError: argument after * must be an iterable">>))
         ELSE LET out == CallMember(p, method_name, params.v) IN
              IF out.kind = "raise"
              THEN Fault(out.plugin, out.val.v, method_name, "raise", out.val)
              ELSE Translate(out.plugin, method_name, out.val)

(***************************************************************************)
(* The peer's messages.  A message is the bytes of one send: the          *)
(* serialisation of a JSON value ("json"), a text that is not JSON        *)
(* ("text") or a run of bytes that are not UTF-8 ("bytes"), size bytes    *)
(* long.                                                                   *)
(***************************************************************************)
Json(val, size) == [kind |-> "json", val |-> val, size |-> size]
Name1(s) == JString(<<s>>)
Args(l) == JArray(l)

\* A request unit with all three members.
Req(method, params, id, size) ==
    Json(JObject([method |-> method, params |-> params, id |-> id]), size)

Messages ==
    { Req(Name1("Name"), Args(<<>>), JNumber(1), 48),
      Req(JString(<<"Service", ".", "Send">>), Args(<<JString(TextHello), JNull>>),
          JNumber(2), 64),
      Req(Name1("Send"), Args(<<JString(TextInvalid), JNull>>), JNumber(3), 64),
      Req(Name1("Init"), Args(<<JString(TextInvalid)>>), JNumber(4), 64),
      Req(Name1("Init"), Args(<<JString(TextConfig)>>), JString(<<"a">>), 64),
      Req(Name1("Init"), Args(<<JNull>>), JNull, 48),
      Req(Name1("Cleanup"), Args(<<>>), JNumber(5), 48),
      Req(Name1("SendBatch"), Args(<<JString(TextFive), JNull>>), JNumber(7), 64),
      Req(Name1("Bogus"), Args(<<>>), JNumber(8), 48),
      Req(Name1("send"), Args(<<JString(TextHello), JNull>>), JNumber(9), 64),
      Req(Name1("_debug"), Args(<<JString(<<"x">>)>>), JNumber(10), 48),
      Req(Name1("__init__"), Args(<<>>), JNumber(11), 48),
      Req(Name1("__sizeof__"), Args(<<>>), JNumber(12), 48),
      Req(Name1("Send"), Args(<<>>), JNumber(14), 48),
      Req(Name1("Type"), JNumber(5), JNumber(15), 48),
      Req(Name1("Send"), Args(<<JString(TextHello), JNull>>), JNumber(17), RecvBuf + 1),
      Json(JObject(<<>>), 2),
      Json(JArray(<<JNumber(1), JNumber(2)>>), 5),
      [kind |-> "text", val |-> JNull, size |-> 16],
      [kind |-> "bytes", val |-> JNull, size |-> 2] }

(***************************************************************************)
(* The process environment.  PLUGIN_PROTOCOL_VERSIONS is written one      *)
(* character per atom.                                                     *)
(***************************************************************************)
MagicCookie == PyStr(<<"arcade-rpc-plugin-protocol">>)
Tokens == {PyNone, MagicCookie, PyStr(<<"some-other-cookie">>)}
\* The values of PLUGIN_PROTOCOL_VERSIONS a host that speaks version 2
\* sets, and the variable left unset.
HostVersionStrings == {PyNone, PyStr(<<"1", ",", "2">>)}
\* More values of it: lists without version 2, and other separators.
VersionStrings ==
    HostVersionStrings \cup
    {PyStr(<<"1">>), PyStr(<<"2">>), PyStr(<<"1", "2">>), PyStr(<<"3", ",", "2", "1">>),
     PyStr(<<"1", ",", " ", "2">>), PyStr(<<"1", ",", "3">>), PyStr(<<>>)}

\* The loopback address the listener is bound to and the ports the
\* operating system may assign to it.
Host == "127.0.0.1"
Ports == {49152}

VARIABLES
    pc,             \* the statement the process is at
    token,          \* os.environ.get('ARCADE_RPC_PLUGIN')
    versions,       \* os.environ.get('PLUGIN_PROTOCOL_VERSIONS')
    exitCode,       \* the exit code of the process, -1 while it runs
    stdout,         \* what standard output has received, one write per element
    server_socket,  \* "none", "unbound", "listening" or "closed"
    client_socket,  \* "none", "open" or "closed"
    running,        \* SimpleRPCServer.running
    port,           \* the port getsockname() returned, 0 before the bind
    plugin,         \* the fields of the NotifyPlugin instance
    opCalls,        \* how many times a member of the plugin has been invoked
    raised,         \* whether start() is propagating an exception
    leftAt,         \* the statement at which start() or its loop was left
    request,        \* the local request of _handle_requests
    call,           \* the member _call_method invoked last and how it ended
    response,       \* the local response of _handle_requests
    sent,           \* the messages the peer has sent, in order
    rcvd,           \* how many bytes of them recv has returned
    outbox,         \* the responses written to the connection, in order
    peer,           \* "none", "connected" or "closed"
    strict,         \* the peer sent each message after the previous response
    cleaned,        \* main has invoked plugin.Cleanup()
    args,           \* the arguments of the member invoked last
    reads           \* how many times recv has returned data

vars ==
    <<pc, token, versions, exitCode, stdout, server_socket, client_socket,
      running, port, plugin, opCalls, raised, leftAt, request, call, response,
      sent, rcvd, outbox, peer, strict, cleaned, args, reads>>

NoCall == [name |-> "", kind |-> "none", val |-> PyNone]
NoResponse == [id |-> JNull, result |-> JNull, error |-> JNull]

\* The state at the start of main, the environment taken from envs.
Start(envs) ==
    /\ pc = "main"
    /\ token \in Tokens
    /\ versions \in envs
    /\ exitCode = -1
    /\ stdout = <<>>
    /\ server_socket = "none"
    /\ client_socket = "none"
    /\ running = FALSE
    /\ port = 0
    /\ plugin = NewPlugin
    /\ opCalls = 0
    /\ raised = FALSE
    /\ leftAt = "none"
    /\ request = PyNone
    /\ call = NoCall
    /\ response = NoResponse
    /\ sent = <<>>
    /\ rcvd = 0
    /\ outbox = <<>>
    /\ peer = "none"
    /\ strict = TRUE
    /\ cleaned = FALSE
    /\ args = <<>>
    /\ reads = 0

Init == Start(HostVersionStrings)

\* Every environment of the model.
InitEnv == Start(VersionStrings)

(***************************************************************************)
(* The byte stream of the connection: the messages sent, end to end.      *)
(***************************************************************************)
Min(a, b) == IF a < b THEN a ELSE b

\* The offset in the stream at which message i begins.
RECURSIVE StartOf(_, _)
StartOf(msgs, i) == IF i <= 1 THEN 0 ELSE StartOf(msgs, i - 1) + msgs[i - 1].size

\* The offset at which message i ends.
EndOf(msgs, i) == StartOf(msgs, i) + msgs[i].size

\* The length of the stream.
Total(msgs) == IF msgs = <<>> THEN 0 ELSE EndOf(msgs, Len(msgs))

\* Decode that parses the first JSON text of the bytes and ignores what
\* follows it.
DecodeFirstText(msgs, lo, hi) ==
    IF \E i \in DOMAIN msgs :
          /\ msgs[i].kind = "bytes"
          /\ StartOf(msgs, i) < hi
          /\ EndOf(msgs, i) > lo
    THEN [status |-> "UnicodeDecodeError", val |-> PyNone]
    ELSE IF \E i \in DOMAIN msgs :
          /\ msgs[i].kind = "json"
          /\ StartOf(msgs, i) = lo
          /\ EndOf(msgs, i) <= hi
    THEN LET i == CHOOSE j \in DOMAIN msgs :
                      StartOf(msgs, j) = lo /\ EndOf(msgs, j) <= hi
         IN  [status |-> "ok", val |-> FromJson(msgs[i].val)]
    ELSE [status |-> "JSONDecodeError", val |-> PyNone]

\* data.decode('utf-8') followed by json.loads, for the bytes lo+1..hi of
\* the stream.  The bytes of a "bytes" message are all invalid UTF-8, so
\* any part of one makes decode raise; the text is JSON only when it is
\* exactly one "json" message, since a part of an object or an array, or
\* two of them end to end, do not parse.
Decode(msgs, lo, hi) ==
    IF \E i \in DOMAIN msgs :
          /\ msgs[i].kind = "bytes"
          /\ StartOf(msgs, i) < hi
          /\ EndOf(msgs, i) > lo
    THEN [status |-> "UnicodeDecodeError", val |-> PyNone]
    ELSE IF \E i \in DOMAIN msgs :
          /\ msgs[i].kind = "json"
          /\ StartOf(msgs, i) = lo
          /\ EndOf(msgs, i) = hi
    THEN LET i == CHOOSE j \in DOMAIN msgs :
                      StartOf(msgs, j) = lo /\ EndOf(msgs, j) = hi
         IN  [status |-> "ok", val |-> FromJson(msgs[i].val)]
    ELSE [status |-> "JSONDecodeError", val |-> PyNone]

\* request.get(key, default) on a dict.
Get(d, key, default) == IF key \in DOMAIN d.v THEN d.v[key] ELSE default

\* The response the loop builds (the 'jsonrpc' member, always '2.0', is
\* left out) as json.dumps writes it.
BuildResponse(req_id, result, error) ==
    [id |-> ToJson(req_id), result |-> ToJson(result), error |-> ToJson(error)]

\* HandshakeLine announcing the port that was asked for, 0, instead of the
\* port that was bound.
HandshakeLineRequestedPort(host, p) ==
    <<"1", "|", "2", "|", "tcp", "|", host, ":", ToString(0), "|", "grpc", "\n">>

\* The handshake line, one write to standard output.
HandshakeLine(host, p) ==
    <<"1", "|", "2", "|", "tcp", "|", host, ":", ToString(p), "|", "grpc", "\n">>

(***************************************************************************)
(* main and check_environment.                                             *)
(***************************************************************************)
\* '2' in protocol_versions: the substring test of the str.
GateVersionOk(protocol_versions) ==
    \E i \in DOMAIN protocol_versions.v : protocol_versions.v[i] = "2"

\* check_environment passes.
GatePasses(magic_cookie, protocol_versions) ==
    /\ magic_cookie = MagicCookie
    /\ GateVersionOk(IF protocol_versions = PyNone THEN PyStr(<<"1">>)
                     ELSE protocol_versions)

\* main up to check_environment(): sys.exit(1) or go on.
check_environment ==
    /\ pc = "main"
    /\ IF GatePasses(token, versions)
       THEN /\ pc' = "create"
            /\ UNCHANGED <<exitCode, leftAt>>
       ELSE /\ pc' = "exited"
            /\ exitCode' = ExitFailure
            /\ leftAt' = "gate"
    /\ UNCHANGED <<token, versions, stdout, server_socket, client_socket,
                   running, port, plugin, opCalls, raised, request, call,
                   response, sent, rcvd, outbox, peer, strict,
                   cleaned, args, reads>>

\* main: plugin = NotifyPlugin(); server = SimpleRPCServer(plugin).
main_create ==
    /\ pc = "create"
    /\ pc' = "bind"
    /\ plugin' = NewPlugin
    /\ server_socket' = "none"
    /\ client_socket' = "none"
    /\ running' = FALSE
    /\ UNCHANGED <<token, versions, exitCode, stdout, port, opCalls, raised,
                   leftAt, request, call, response, sent, rcvd, outbox, peer,
                   strict,
                   cleaned, args, reads>>

(***************************************************************************)
(* SimpleRPCServer.start.                                                  *)
(***************************************************************************)
\* socket(), setsockopt(), bind(('127.0.0.1', 0)), listen(1), getsockname().
start_bind ==
    /\ pc = "bind"
    /\ \E p \in Ports :
          /\ port' = p
          /\ server_socket' = "listening"
          /\ pc' = "handshake"
    /\ UNCHANGED <<token, versions, exitCode, stdout, client_socket, running,
                   plugin, opCalls, raised, leftAt, request, call, response,
                   sent, rcvd, outbox, peer, strict,
                   cleaned, args, reads>>

\* socket() raises OSError and leaves server_socket None, or bind() or
\* listen() does and leaves a socket that listens nowhere: except Exception:
\* raise.
BindError ==
    /\ pc = "bind"
    /\ pc' = "stop"
    /\ raised' = TRUE
    /\ leftAt' = "bind"
    /\ server_socket' \in {"none", "unbound"}
    /\ UNCHANGED <<token, versions, exitCode, stdout, client_socket, running,
                   port, plugin, opCalls, request, call, response, sent, rcvd,
                   outbox, peer, strict,
                   cleaned, args, reads>>

\* sys.stdout.write(handshake); sys.stdout.flush().
start_handshake ==
    /\ pc = "handshake"
    /\ stdout' = Append(stdout, HandshakeLine(Host, port))
    /\ pc' = "accept"
    /\ UNCHANGED <<token, versions, exitCode, server_socket, client_socket,
                   running, port, plugin, opCalls, raised, leftAt, request,
                   call, response, sent, rcvd, outbox, peer, strict,
                   cleaned, args, reads>>

\* self.client_socket, addr = self.server_socket.accept(); running = True.
start_accept ==
    /\ pc = "accept"
    /\ peer # "none"
    /\ client_socket' = "open"
    /\ running' = TRUE
    /\ pc' = "recv"
    /\ UNCHANGED <<token, versions, exitCode, stdout, server_socket, port,
                   plugin, opCalls, raised, leftAt, request, call, response,
                   sent, rcvd, outbox, peer, strict,
                   cleaned, args, reads>>

\* accept() raises OSError: except Exception: raise.
AcceptError ==
    /\ pc = "accept"
    /\ pc' = "stop"
    /\ raised' = TRUE
    /\ leftAt' = "accept"
    /\ UNCHANGED <<token, versions, exitCode, stdout, server_socket,
                   client_socket, running, port, plugin, opCalls, request,
                   call, response, sent, rcvd, outbox, peer, strict,
                   cleaned, args, reads>>

(***************************************************************************)
(* SimpleRPCServer._handle_requests.                                       *)
(***************************************************************************)
\* RequestId with the id of the request ignored.
RequestIdDefault(req) == PyInt(DefaultId)

\* request.get('id', 0)
RequestId(req) == Get(req, "id", PyInt(DefaultId))

\* func(*params): the arguments a member is called with, none when no
\* member is called.
Arguments(c, params) ==
    IF c.name = "" \/ params.t # "list" THEN <<>> ELSE params.v

\* One pass of the loop from recv to the built response: recv(4096)
\* returns what has arrived, at most RecvBuf bytes, or nothing once the
\* peer has closed.
handle_recv ==
    /\ pc = "recv"
    /\ running
    /\ LET avail == Total(sent) - rcvd
           n == Min(RecvBuf, avail)
           d == Decode(sent, rcvd, rcvd + n)
       IN
       /\ avail > 0 \/ peer = "closed"
       /\ IF avail = 0
          THEN \* if not data: break
               /\ pc' = "stop"
               /\ leftAt' = "eof"
               /\ UNCHANGED <<rcvd, plugin, opCalls, request, call, response,
                              args, reads>>
          ELSE /\ rcvd' = rcvd + n
               /\ reads' = reads + 1
               /\ IF d.status = "UnicodeDecodeError"
                  THEN \* not a JSONDecodeError: except Exception: break
                       /\ pc' = "stop"
                       /\ leftAt' = "decode"
                       /\ UNCHANGED <<plugin, opCalls, request, call, response,
                                      args>>
                  ELSE IF d.status = "JSONDecodeError"
                  THEN \* except json.JSONDecodeError: continue
                       /\ pc' = "recv"
                       /\ UNCHANGED <<leftAt, plugin, opCalls, request, call,
                                      response, args>>
                  ELSE IF d.val.t # "dict"
                  THEN \* request.get raises AttributeError: break
                       /\ pc' = "stop"
                       /\ leftAt' = "get"
                       /\ request' = d.val
                       /\ UNCHANGED <<plugin, opCalls, call, response, args>>
                  ELSE LET method == Get(d.val, "method", PyStr(<<>>))
                           params == Get(d.val, "params", PyList(<<>>))
                           req_id == RequestId(d.val)
                           a == _call_method(plugin, method, params)
                       IN
                       /\ request' = d.val
                       /\ plugin' = a.plugin
                       /\ call' = a.call
                       /\ args' = Arguments(a.call, params)
                       /\ opCalls' = opCalls + (IF a.call.kind = "return" THEN 1 ELSE 0)
                       /\ response' = BuildResponse(req_id, a.result, a.error)
                       /\ pc' = "send"
                       /\ UNCHANGED leftAt
    /\ UNCHANGED <<token, versions, exitCode, stdout, server_socket,
                   client_socket, running, port, raised, sent, outbox, peer,
                   strict, cleaned>>

\* self.client_socket.sendall(response_data), and back to the top.
handle_send ==
    /\ pc = "send"
    /\ outbox' = Append(outbox, response)
    /\ pc' = "recv"
    /\ UNCHANGED <<token, versions, exitCode, stdout, server_socket,
                   client_socket, running, port, plugin, opCalls, raised,
                   leftAt, request, call, response, sent, rcvd, peer, strict,
                   cleaned, args, reads>>

\* recv raises ConnectionResetError or another OSError: break.
RecvError ==
    /\ pc = "recv"
    /\ peer # "none"
    /\ pc' = "stop"
    /\ leftAt' = "recv"
    /\ UNCHANGED <<token, versions, exitCode, stdout, server_socket,
                   client_socket, running, port, plugin, opCalls, raised,
                   request, call, response, sent, rcvd, outbox, peer, strict,
                   cleaned, args, reads>>

\* sendall raises ConnectionResetError or another OSError: break.
SendError ==
    /\ pc = "send"
    /\ pc' = "stop"
    /\ leftAt' = "sendall"
    /\ UNCHANGED <<token, versions, exitCode, stdout, server_socket,
                   client_socket, running, port, plugin, opCalls, raised,
                   request, call, response, sent, rcvd, outbox, peer, strict,
                   cleaned, args, reads>>

\* CloseSocket that leaves the socket as it is.
CloseSocketLeavesOpen(s) == s

\* close() on a socket attribute that is set (if self.client_socket: ...).
CloseSocket(s) == IF s = "none" THEN "none" ELSE "closed"

(***************************************************************************)
(* Signals that arrive while the process is blocked in accept or recv.    *)
(* The program installs no signal handler.                                 *)
(***************************************************************************)
\* SIGINT: Python raises KeyboardInterrupt in the blocked call.  It is not
\* an Exception, so it passes the except clauses of _handle_requests and
\* of start, leaves start through its finally clause, and is caught by
\* main's except KeyboardInterrupt, which reports it and goes on to the
\* finally clause.
Interrupt ==
    /\ pc \in {"accept", "recv"}
    /\ pc' = "stop"
    /\ leftAt' = "SIGINT"
    /\ UNCHANGED <<token, versions, exitCode, stdout, server_socket,
                   client_socket, running, port, plugin, opCalls, raised,
                   request, call, response, sent, rcvd, outbox, peer, strict,
                   cleaned, args, reads>>

\* SIGTERM: the default disposition ends the process at once, with no
\* except or finally clause run; the operating system closes the sockets
\* and the parent sees the status 128 + 15.
Terminate ==
    /\ pc \in {"accept", "recv"}
    /\ pc' = "exited"
    /\ leftAt' = "SIGTERM"
    /\ exitCode' = 128 + 15
    /\ client_socket' = CloseSocket(client_socket)
    /\ server_socket' = CloseSocket(server_socket)
    /\ UNCHANGED <<token, versions, stdout, running, port, plugin, opCalls,
                   raised, request, call, response, sent, rcvd, outbox, peer,
                   strict, cleaned, args, reads>>

(***************************************************************************)
(* Teardown.                                                               *)
(***************************************************************************)
\* The finally clause of start: SimpleRPCServer.stop().
stop ==
    /\ pc = "stop"
    /\ running' = FALSE
    /\ client_socket' = CloseSocket(client_socket)
    /\ server_socket' = CloseSocket(server_socket)
    /\ pc' = IF raised THEN "except" ELSE "finally"
    /\ UNCHANGED <<token, versions, exitCode, stdout, port, plugin, opCalls,
                   raised, leftAt, request, call, response, sent, rcvd,
                   outbox, peer, strict,
                   cleaned, args, reads>>

\* main: except Exception: report on standard error and sys.exit(1); the
\* SystemExit leaves through the finally clause.
main_except ==
    /\ pc = "except"
    /\ pc' = "finally"
    /\ UNCHANGED <<token, versions, exitCode, stdout, server_socket,
                   client_socket, running, port, plugin, opCalls, raised,
                   leftAt, request, call, response, sent, rcvd, outbox, peer,
                   strict,
                   cleaned, args, reads>>

\* main: finally: plugin.Cleanup(), and the process ends.
main_finally ==
    /\ pc = "finally"
    /\ plugin' = Cleanup(plugin).plugin
    /\ opCalls' = opCalls + 1
    /\ cleaned' = TRUE
    /\ exitCode' = IF raised THEN ExitFailure ELSE 0
    /\ pc' = "exited"
    /\ UNCHANGED <<token, versions, stdout, server_socket, client_socket,
                   running, port, raised, leftAt, request, call, response,
                   sent, rcvd, outbox, peer, strict, args, reads>>

(***************************************************************************)
(* The peer (the host process).                                            *)
(***************************************************************************)
\* The host connects to the announced address.
PeerConnect ==
    /\ peer = "none"
    /\ server_socket = "listening"
    /\ peer' = "connected"
    /\ UNCHANGED <<pc, token, versions, exitCode, stdout, server_socket,
                   client_socket, running, port, plugin, opCalls, raised,
                   leftAt, request, call, response, sent, rcvd, outbox,
                   strict,
                   cleaned, args, reads>>

\* The host sends one message.  It keeps the discipline of one request at
\* a time when it has the response to every message sent before.
PeerSend ==
    /\ peer = "connected"
    /\ client_socket # "closed"
    /\ Len(sent) < MaxRequests
    /\ \E m \in Messages : sent' = Append(sent, m)
    /\ strict' = (strict /\ Len(outbox) = Len(sent))
    /\ UNCHANGED <<pc, token, versions, exitCode, stdout, server_socket,
                   client_socket, running, port, plugin, opCalls, raised,
                   leftAt, request, call, response, rcvd, outbox, peer,
                   cleaned, args, reads>>

\* The host closes its end of the connection.
PeerClose ==
    /\ peer = "connected"
    /\ peer' = "closed"
    /\ UNCHANGED <<pc, token, versions, exitCode, stdout, server_socket,
                   client_socket, running, port, plugin, opCalls, raised,
                   leftAt, request, call, response, sent, rcvd, outbox,
                   strict,
                   cleaned, args, reads>>

Next ==
    \/ check_environment
    \/ main_create
    \/ start_bind
    \/ BindError
    \/ start_handshake
    \/ start_accept
    \/ AcceptError
    \/ handle_recv
    \/ handle_send
    \/ RecvError
    \/ SendError
    \/ Interrupt
    \/ Terminate
    \/ stop
    \/ main_except
    \/ main_finally
    \/ PeerConnect
    \/ PeerSend
    \/ PeerClose

Spec == Init /\ [][Next]_vars

\* The process started in any environment.
SpecEnv == InitEnv /\ [][Next]_vars

\* The process is one sequential thread: once the loop or start() is left,
\* stop(), the except clause and the finally clause of main run to the end
\* without waiting for anything.
SpecLive ==
    Spec /\ WF_vars(stop) /\ WF_vars(main_except) /\ WF_vars(main_finally)

(***************************************************************************)
(* The capability object on its own, operated as test_plugin.py operates  *)
(* it: a NotifyPlugin is constructed and its operations are called        *)
(* directly, with no server.                                               *)
(***************************************************************************)
\* The payloads (config_json, message_json, data_json, messages_json) an
\* operation is given: None, the empty string, JSON texts, a text that is
\* not JSON, and a value that is not a string.
Payloads ==
    {PyNone, PyStr(<<>>), PyStr(TextConfig), PyStr(TextHello), PyStr(TextFive),
     PyStr(TextBatch), PyStr(TextInvalid), PyInt(5)}

\* The opts_json an operation is given.
Options == {PyNone, PyStr(TextConfig)}

\* The argument lists each operation is called with.
ArgLists(name) ==
    CASE name = "Init" -> {<<c>> : c \in Payloads}
      [] name \in {"Send", "SendBatch"} ->
            {<<m, o>> : m \in Payloads, o \in Options}
      [] name = "SendTemplate" ->
            {<<PyStr(<<"alert">>), d, o>> : d \in Payloads, o \in Options}
      [] OTHER -> {<<>>}

\* A test after its first statement, plugin = NotifyPlugin().
InitOps ==
    /\ pc = "test"
    /\ token = PyNone
    /\ versions = PyNone
    /\ exitCode = -1
    /\ stdout = <<>>
    /\ server_socket = "none"
    /\ client_socket = "none"
    /\ running = FALSE
    /\ port = 0
    /\ plugin = NewPlugin
    /\ opCalls = 0
    /\ raised = FALSE
    /\ leftAt = "none"
    /\ request = PyNone
    /\ call = NoCall
    /\ response = NoResponse
    /\ sent = <<>>
    /\ rcvd = 0
    /\ outbox = <<>>
    /\ peer = "none"
    /\ strict = TRUE
    /\ cleaned = FALSE
    /\ args = <<>>
    /\ reads = 0

\* The next test begins: plugin = NotifyPlugin().
test_new ==
    /\ pc = "test"
    /\ plugin' = NewPlugin
    /\ call' = NoCall
    /\ args' = <<>>
    /\ UNCHANGED <<pc, token, versions, exitCode, stdout, server_socket,
                   client_socket, running, port, opCalls, raised, leftAt,
                   request, response, sent, rcvd, outbox, peer, strict,
                   cleaned, reads>>

\* error = plugin.<operation>(<arguments>)
test_call ==
    /\ pc = "test"
    /\ opCalls < MaxCalls
    /\ \E name \in Operations : \E a \in ArgLists(name) :
          LET out == CallMember(plugin, name, a) IN
          /\ plugin' = out.plugin
          /\ call' = [name |-> name, kind |-> out.kind, val |-> out.val]
          /\ args' = a
    /\ opCalls' = opCalls + 1
    /\ UNCHANGED <<pc, token, versions, exitCode, stdout, server_socket,
                   client_socket, running, port, raised, leftAt, request,
                   response, sent, rcvd, outbox, peer, strict, cleaned,
                   reads>>

NextOps ==
    \/ test_new
    \/ test_call

SpecOps == InitOps /\ [][NextOps]_vars

(***************************************************************************)
(* Definitions the properties below are stated with.                       *)
(***************************************************************************)
\* A request unit: an object with a string method, an array of params and
\* an id.
WellFormed(m) ==
    /\ m.kind = "json"
    /\ m.val.t = "object"
    /\ DOMAIN m.val.v = {"method", "params", "id"}
    /\ m.val.v.method.t = "string"
    /\ m.val.v.params.t = "array"

\* The message is no longer than one read returns.
Fits(m) == m.size <= RecvBuf

\* How many of the messages sent recv has returned to the end.
Consumed == Cardinality({i \in DOMAIN sent : EndOf(sent, i) <= rcvd})

\* The response written last.
LastResponse(box) == box[Len(box)]

\* The step that writes a response to the connection.
Written == pc = "send" /\ pc' = "recv" /\ Len(outbox') = Len(outbox) + 1

\* The step that decodes a request and dispatches it.
Dispatched == pc = "recv" /\ pc' = "send"

\* seq occurs in the string s.
Contains(s, seq) ==
    \E k \in 1..Len(s) : k + Len(seq) - 1 <= Len(s) /\ SubSeq(s, k, k + Len(seq) - 1) = seq

\* The responses match the requests, one for one and in order, and none
\* is outstanding when the loop reads.
OneForOne ==
    /\ Len(outbox) <= Len(sent)
    /\ \A i \in DOMAIN outbox : outbox[i].id = sent[i].val.v.id
    /\ pc \in {"recv", "send"} =>
          Len(outbox) + (IF pc = "send" THEN 1 ELSE 0) = Consumed
    /\ (pc = "recv" /\ rcvd = Total(sent)) => Len(outbox) = Len(sent)

(***************************************************************************)
(* The properties.                                                         *)
(***************************************************************************)
\* C1 (as stated): whenever the peer has sent well-formed requests strictly
\* one at a time, the loop has sent one response per request read, the
\* i-th with the id of the i-th request, and every request read has been
\* answered when the loop reads again.
C1_AsStated ==
    (strict /\ \A i \in DOMAIN sent : WellFormed(sent[i])) => OneForOne

\* C1 (amended): the same for well-formed requests each of which is no
\* longer than one read returns (RecvBuf bytes), so that each arrives whole
\* in a single read.
C1_OneResponsePerRequest ==
    (strict /\ \A i \in DOMAIN sent : WellFormed(sent[i]) /\ Fits(sent[i]))
        => OneForOne

C1_Witness ==
    /\ strict
    /\ Len(sent) = 2
    /\ \A i \in DOMAIN sent : WellFormed(sent[i]) /\ Fits(sent[i])
    /\ sent[1].val.v.id # sent[2].val.v.id
    /\ pc = "recv"
    /\ Len(outbox) = 2
    /\ outbox[2].id = sent[2].val.v.id

\* C2: no response written to the connection has both a result and an
\* error that are not null.
C2_NeverBoth ==
    \A i \in DOMAIN outbox : outbox[i].result = JNull \/ outbox[i].error = JNull

C2_Witness ==
    /\ Len(outbox) = 2
    /\ outbox[1].result # JNull
    /\ outbox[2].error # JNull

\* The operations that report a failure by returning a string.
ReportsFailure(c) ==
    /\ c.name \in {"Init", "Cleanup", "Send", "SendTemplate", "SendBatch"}
    /\ c.kind = "return"
    /\ c.val.t = "str"

\* C3: the response to a request whose operation returned its failure
\* string has an error that is not null and a null result.
C3_FailureStringIsError ==
    [][(Written /\ ReportsFailure(call)) =>
          /\ LastResponse(outbox').error # JNull
          /\ LastResponse(outbox').result = JNull]_vars

\* The name a request's method resolves to (the request is a dict whose
\* method is a str).
ResolvedName(req) == AttrName(LastSegment(Get(req, "method", PyStr(<<>>)).v))

\* C4: the response to a request whose method name, the qualifier
\* stripped, is not an operation of the capability contract has an error
\* that is not null and a null result, and the dispatch invokes no member
\* of the plugin and leaves its state as it was.
C4_UnknownMethodRejected ==
    [][(/\ Dispatched
        /\ Get(request', "method", PyStr(<<>>)).t = "str"
        /\ ResolvedName(request') \notin Operations) =>
          /\ response'.error # JNull
          /\ response'.result = JNull
          /\ opCalls' = opCalls
          /\ plugin' = plugin]_vars

\* C5: when the member a request resolves to raises (called with the
\* wrong number of arguments, or with params that cannot be unpacked), the
\* loop goes on to send a response with the id of the request, an error
\* that holds the description of the fault and a null result, and sending
\* it brings the loop back to recv.
C5_FaultAnswered ==
    [][/\ (/\ pc = "recv"
           /\ rcvd' > rcvd
           /\ Decode(sent, rcvd, rcvd').status = "ok"
           /\ Decode(sent, rcvd, rcvd').val.t = "dict"
           /\ call'.kind = "raise") =>
             /\ pc' = "send"
             /\ response'.id = ToJson(Get(request', "id", PyInt(DefaultId)))
             /\ response'.result = JNull
             /\ response'.error.t = "string"
             /\ Contains(response'.error.v, call'.val.v)
       /\ (pc = "send" /\ call.kind = "raise" /\ outbox' # outbox) =>
             /\ outbox' = Append(outbox, response)
             /\ pc' = "recv"]_vars

C5_Witness ==
    /\ pc = "recv"
    /\ call.kind = "raise"
    /\ Len(outbox) = 2
    /\ LastResponse(outbox).id = ToJson(RequestId(request))
    /\ LastResponse(outbox).error # JNull
    /\ LastResponse(outbox).result = JNull

\* C6: the response to a request whose member returned None has a null
\* result and a null error.
C6_NoneIsNullNull ==
    [][(Written /\ call.kind = "return" /\ call.val = PyNone) =>
          /\ LastResponse(outbox').result = JNull
          /\ LastResponse(outbox').error = JNull]_vars

C6_Witness ==
    /\ pc = "recv"
    /\ call.name = "Send"
    /\ call.kind = "return"
    /\ call.val = PyNone
    /\ Len(outbox) >= 1
    /\ LastResponse(outbox) = [id |-> JNumber(2), result |-> JNull, error |-> JNull]

\* A string that begins with one of the failure markers.
Marked(val) ==
    /\ val.t = "str"
    /\ StartsWith(val.v, MarkerError) \/ StartsWith(val.v, MarkerFailed)

\* C7: a value other than None that a member returns is the result of the
\* response, with a null error, whatever its type, unless it is a string
\* that begins with a failure marker, which is the error, with a null
\* result.
C7_ValueIsResult ==
    [][(Written /\ call.kind = "return" /\ call.val # PyNone) =>
          IF Marked(call.val)
          THEN /\ LastResponse(outbox').result = JNull
               /\ LastResponse(outbox').error = ToJson(call.val)
          ELSE /\ LastResponse(outbox').result = ToJson(call.val)
               /\ LastResponse(outbox').error = JNull]_vars

\* C8: the loop is left only at a read of nothing (the peer closed) or at
\* a fault of recv or sendall (or when a signal ends the process), never
\* because of what the bytes read held.
C8_OnlyTransportCloses ==
    leftAt \in {"none", "gate", "bind", "accept", "eof", "recv", "sendall",
                "SIGINT", "SIGTERM"}

\* C9: standard output receives at most one write, the handshake line
\* with the address the listener is bound to; it is there once the listener
\* is bound and accept is about to be called, and nothing follows it.
C9_OneHandshakeLine ==
    /\ Len(stdout) <= 1
    /\ stdout # <<>> =>
          /\ server_socket \in {"listening", "closed"}
          /\ port \in Ports
          /\ stdout[1] = <<"1", "|", "2", "|", "tcp", "|", "127.0.0.1", ":",
                           ToString(port), "|", "grpc", "\n">>
    /\ (pc = "accept" \/ client_socket # "none") => Len(stdout) = 1
    /\ (pc \in {"main", "create", "bind", "handshake"} \/ leftAt \in {"gate", "bind"})
          => stdout = <<>>

C9_Witness ==
    /\ pc = "exited"
    /\ Len(outbox) = 2
    /\ Len(stdout) = 1

\* Version 2 is an element of the list of versions, the elements separated
\* by commas and spaces.
VersionListed(v) ==
    /\ v # PyNone
    /\ \E i \in DOMAIN v.v :
          /\ v.v[i] = "2"
          /\ i = 1 \/ v.v[i - 1] \in {",", " "}
          /\ i = Len(v.v) \/ v.v[i + 1] \in {",", " "}

\* C10: with the token absent or wrong, or version 2 not in the list of
\* supported versions (or the list absent), the process exits with a code
\* that is not zero, no listener bound, nothing on standard output and no
\* member of the plugin invoked; otherwise the gate passes.
C10_GateFailsFast ==
    pc # "main" =>
       IF token # MagicCookie \/ ~VersionListed(versions)
       THEN /\ pc = "exited"
            /\ leftAt = "gate"
            /\ exitCode \notin {-1, 0}
            /\ server_socket = "none"
            /\ port = 0
            /\ stdout = <<>>
            /\ opCalls = 0
       ELSE leftAt # "gate"

\* The process has ended in order: both sockets closed, Cleanup invoked by
\* main, exit code zero.
OrderlyExit ==
    /\ pc = "exited"
    /\ client_socket = "closed"
    /\ server_socket = "closed"
    /\ cleaned
    /\ exitCode = 0

\* C11: the read that returns no bytes (the peer has closed) takes the loop
\* out of recv and send for good, no response is written from then on, and
\* the process goes on to close both sockets, invoke Cleanup and exit with
\* code zero.
C11_PeerCloseOrderlyExit ==
    /\ [][(leftAt' = "eof") =>
             /\ outbox' = outbox
             /\ pc' \notin {"accept", "recv", "send"}]_vars
    /\ (leftAt = "eof") ~> OrderlyExit

C11_Witness ==
    /\ leftAt = "eof"
    /\ Len(sent) >= 1
    /\ Len(outbox) = Len(sent)
    /\ OrderlyExit

\* C12: in every state in which the loop is reading or answering requests
\* the connection has been accepted and the listening socket is no longer
\* open, so that no further connection can be accepted or queued on it.
C12_ListenerClosedInLoop ==
    pc \in {"recv", "send"} =>
       /\ client_socket = "open"
       /\ server_socket # "listening"

\* The step of a test that calls the operation name.
Called(name) == opCalls' = opCalls + 1 /\ call'.name = name

\* A payload that is a string, not empty, and not a JSON text.
InvalidJson(c) == c.t = "str" /\ c.v # <<>> /\ ~JsonLoads(c.v).ok

\* A valid configuration: null, empty, or a string that is a JSON text.
ValidConfig(c) ==
    \/ c = PyNone
    \/ c = PyStr(<<>>)
    \/ c.t = "str" /\ JsonLoads(c.v).ok

\* C13: Init called with a payload that is not valid JSON returns a
\* failure string (not None) and leaves config as it was before the call.
C13_InvalidInitKeepsConfig ==
    [][(Called("Init") /\ InvalidJson(args'[1])) =>
          /\ call'.kind = "return"
          /\ call'.val.t = "str"
          /\ call'.val.v # <<>>
          /\ plugin'.config = plugin.config]_vars

C13_Witness ==
    /\ pc = "test"
    /\ call.name = "Init"
    /\ args = <<PyStr(TextInvalid)>>
    /\ call.val.t = "str"
    /\ plugin.config = PyDict([a |-> PyInt(1)])

\* C14: Init called with a valid configuration returns None, and Cleanup
\* called next on the same plugin returns None.
C14_InitThenCleanupSucceed ==
    [][/\ (Called("Init") /\ ValidConfig(args'[1])) =>
             /\ call'.kind = "return"
             /\ call'.val = PyNone
       /\ (/\ Called("Cleanup")
           /\ call.name = "Init"
           /\ ValidConfig(args[1])) =>
             /\ call'.kind = "return"
             /\ call'.val = PyNone]_vars

C14_Witness ==
    /\ pc = "test"
    /\ opCalls = 2
    /\ call = [name |-> "Cleanup", kind |-> "return", val |-> PyNone]
    /\ plugin.config = PyDict([a |-> PyInt(1)])

\* Qualifiers a method name is prefixed with (the empty one gives ".M").
Qualifiers == {<<"Service">>, <<"Plugin", ".", "Notify">>, <<"Init">>, <<>>}

\* C15: a request whose method is a string is answered, and changes the
\* plugin, exactly as a request for the final dot-separated segment M of
\* the method with the same params; so is a request for Q.M, for every
\* qualifier Q; and a name M that is not, letter for letter, a member of
\* the plugin is answered "does not exist" with no member invoked.
C15_OnlyLastSegmentCounts ==
    [][(Dispatched /\ Get(request', "method", PyStr(<<>>)).t = "str") =>
          LET method == Get(request', "method", PyStr(<<>>)).v
              params == Get(request', "params", PyList(<<>>))
              M == LastSegment(method)
              plain == _call_method(plugin, PyStr(M), params)
          IN  /\ plugin' = plain.plugin
              /\ call' = plain.call
              /\ response' = BuildResponse(RequestId(request'), plain.result,
                                           plain.error)
              /\ \A Q \in Qualifiers :
                    _call_method(plugin, PyStr(Q \o <<".">> \o M), params) = plain
              /\ AttrName(M) \notin Operations \cup DataAttrs \cup OtherCallables =>
                    /\ plain.result = PyNone
                    /\ plain.error = PyStr(NotFound(AttrName(M)))
                    /\ plain.call.kind = "none"]_vars

C15_Witness ==
    /\ pc = "recv"
    /\ Len(outbox) = 2
    /\ outbox[1].id = JNumber(9)
    /\ outbox[1].error = JString(NotFound("send"))
    /\ request.t = "dict"
    /\ Get(request, "method", PyStr(<<>>)) = PyStr(<<"Service", ".", "Send">>)
    /\ call = [name |-> "Send", kind |-> "return", val |-> PyNone]
    /\ outbox[2] = [id |-> JNumber(2), result |-> JNull, error |-> JNull]

\* The bytes lo+1..hi of the stream are one request unit: the text of one
\* JSON object.
IsRequestUnit(lo, hi) ==
    /\ Decode(sent, lo, hi).status = "ok"
    /\ Decode(sent, lo, hi).val.t = "dict"

\* C16: a read that returns bytes which are not a request unit is followed
\* by the sending of a response with an error that is not null and a null
\* result, before the loop reads again.
C16_MalformedAnswered ==
    [][(pc = "recv" /\ rcvd' > rcvd /\ ~IsRequestUnit(rcvd, rcvd')) =>
          /\ pc' = "send"
          /\ response'.error # JNull
          /\ response'.result = JNull]_vars

\* C17: no response written to the connection contains the trace of a
\* fault (the text traceback.format_exc() returns); the error of the
\* response to a faulted call holds the description of the fault only.
C17_NoTraceOnWire ==
    \A i \in DOMAIN outbox :
       outbox[i].error.t = "string" => ~Contains(outbox[i].error.v, <<Traceback>>)

\* C18: when the process has ended after the gate passed because accept
\* failed or because a signal arrived while it was blocked in accept or in
\* recv, main has invoked the plugin's Cleanup.
C18_CleanupBeforeExit ==
    (pc = "exited" /\ leftAt \in {"accept", "SIGINT", "SIGTERM"}) => cleaned

\* The messages that have bytes among the bytes lo+1..hi of the stream.
Overlapping(lo, hi) ==
    {i \in DOMAIN sent : StartOf(sent, i) < hi /\ EndOf(sent, i) > lo}

\* The bytes lo+1..hi are bytes of request units only, and are not one
\* whole request unit: two or more of them end to end, or a part of one.
JoinedOrPart(lo, hi) ==
    /\ \A i \in Overlapping(lo, hi) : WellFormed(sent[i])
    /\ ~\E i \in DOMAIN sent : StartOf(sent, i) = lo /\ EndOf(sent, i) = hi

StoresConfig(a) ==
    /\ Len(a) = 1
    /\ a[1].t = "str"
    /\ a[1].v # <<>>
    /\ JsonLoads(a[1].v).ok

\* C20: a step changes the config of the plugin only by calling Init with
\* a payload that is not empty and parses as JSON; after such a call the
\* config is the parsed value; every other call and every other step
\* leaves the config as it was.
C20_OnlyInitStoresConfig ==
    [][/\ plugin'.config # plugin.config =>
             /\ Dispatched
             /\ call'.name = "Init"
             /\ StoresConfig(args')
       /\ (Dispatched /\ call'.name = "Init" /\ StoresConfig(args')) =>
             plugin'.config = JsonLoads(args'[1].v).val]_vars
====
